---- MODULE Spec2Model ----
(***************************************************************************)
(* VigaRectangular (analisis_estructural.py) with the catalogue and the    *)
(* design constants of constantes.py.                                      *)
(*                                                                         *)
(* The program computes with IEEE doubles.  Here every real quantity is a  *)
(* fixed-point integer, and every multiplication or division is computed   *)
(* exactly and then rounded to the nearest unit of its result, the way a   *)
(* double rounds each operation to its nearest representable value.        *)
(*   length  : micrometres        (1 mm    = 10^3)                         *)
(*   stress  : 10^-3 MPa          (1 MPa   = 10^3)                         *)
(*   area    : 10^-3 mm2          (1 mm2   = 10^3)                         *)
(*   force   : newtons                                                     *)
(*   moment  : N.mm                                                        *)
(*   beta1   : 10^-6                                                       *)
(*   inputs  : cm, kgf/cm2 (integers) and 10^-3 ton.m                      *)
(* The beams driven here have fc > 0 and fy > 0 (np.sqrt of a negative fc  *)
(* is NaN, which the representation does not have), widths from 0 and      *)
(* depths from 20 cm, and moments >= 0.                                    *)
(***************************************************************************)
EXTENDS Integers, Sequences, FiniteSets, TLC

VARIABLES self, pc, call, ret

vars == <<self, pc, call, ret>>

-----------------------------------------------------------------------------
(* Arithmetic of the fixed-point representation.                           *)

Abs(x) == IF x < 0 THEN -x ELSE x

Sgn(x) == IF x < 0 THEN -1 ELSE 1

Max(x, y) == IF x >= y THEN x ELSE y

Min(x, y) == IF x <= y THEN x ELSE y

\* From h = <<q, r>> with x*(y \div 2) = q*z + r, the pair for x*y.
MulQRStep(h, x, y, z) ==
    LET c2 == IF 2 * h[2] >= z THEN 1 ELSE 0
        q2 == 2 * h[1] + c2
        r2 == 2 * h[2] - c2 * z
        r3 == r2 + (x % z)
        c3 == IF r3 >= z THEN 1 ELSE 0
    IN  IF y % 2 = 0 THEN <<q2, r2>>
        ELSE <<q2 + (x \div z) + c3, r3 - c3 * z>>

\* <<q, r>> with x*y = q*z + r and 0 <= r < z, for x, y >= 0 and z > 0.  The
\* product is taken at once when it fits 32 bits, and by doubling otherwise,
\* so that no intermediate value leaves 32 bits.
RECURSIVE MulQR(_, _, _)
MulQR(x, y, z) ==
    IF x = 0 \/ y <= 2147483647 \div x THEN <<(x * y) \div z, (x * y) % z>>
    ELSE MulQRStep(MulQR(x, y \div 2, z), x, y, z)

\* q rounded up when the remainder r is at least half of z.
Redondear(qr, z) == qr[1] + (IF 2 * qr[2] >= z THEN 1 ELSE 0)

\* x*y/z rounded to the nearest integer (z # 0).
MulDiv(x, y, z) ==
    Sgn(x) * Sgn(y) * Sgn(z)
      * Redondear(MulQR(Max(Abs(x), Abs(y)), Min(Abs(x), Abs(y)), Abs(z)), Abs(z))

\* math.ceil(x / y) for y > 0.
Ceil(x, y) == -((-x) \div y)

\* int(x / y) for y > 0: the quotient truncated toward zero.
IntTrunc(x, y) == IF x >= 0 THEN x \div y ELSE -((-x) \div y)

\* np.sqrt, to the nearest unit below: the largest r in lo..hi with r*r <= n.
RECURSIVE SqrtIn(_, _, _)
SqrtIn(n, lo, hi) ==
    IF lo >= hi THEN lo
    ELSE LET mid == (lo + hi + 1) \div 2
         IN  IF mid * mid <= n THEN SqrtIn(n, mid, hi) ELSE SqrtIn(n, lo, mid - 1)

-----------------------------------------------------------------------------
(* constantes.py                                                           *)

KG_CM2_A_MPA == 980665              \* 0.0980665, in 10^-7
TON_A_N == 980665                   \* 9806.65 N, in 10^-2 N
M_A_MM == 1000
CM_A_MM == 10
TON_M_A_N_MM == (TON_A_N * M_A_MM) \div 100     \* 9806650 N.mm per ton.m
MODULO_ELASTICIDAD_ACERO == 200000  \* MPa
PHI_FLEXION == 900                  \* 0.90, in 10^-3
RECUBRIMIENTO_PROMEDIO == 60000     \* 60.0 mm
RECUBRIMIENTO_VIGA == 40000         \* 40.0 mm
DIAMETRO_ESTRIBO_DEF == 9500        \* 9.5 mm
SEPARACION_MINIMA_CONCRETO == 25000 \* 25.0 mm

VARILLAS_INFO ==
    [k \in {"3/8", "1/2", "5/8", "3/4", "1", "1 3/8"} |->
        CASE k = "3/8"   -> [area |-> 71000,   diam |-> 9500]
          [] k = "1/2"   -> [area |-> 129000,  diam |-> 12700]
          [] k = "5/8"   -> [area |-> 199000,  diam |-> 15900]
          [] k = "3/4"   -> [area |-> 284000,  diam |-> 19100]
          [] k = "1"     -> [area |-> 510000,  diam |-> 25400]
          [] k = "1 3/8" -> [area |-> 1006000, diam |-> 35800]]

-----------------------------------------------------------------------------
(* VigaRectangular.__init__ and _calcular_beta1                            *)

\* (the variant takes the upper limit as strict)
_calcular_beta1_mut(fc) ==
    IF fc <= 28000 THEN 850000
    ELSE IF fc > 55000 THEN 650000
    ELSE 850000 - MulDiv(50 * (fc - 28000), 1, 7)
_calcular_beta1(fc) ==
    IF fc <= 28000 THEN 850000
    ELSE IF fc >= 55000 THEN 650000
    ELSE 850000 - MulDiv(50 * (fc - 28000), 1, 7)

__init__(base_cm, altura_cm, fc_kg_cm2, fy_kg_cm2) ==
    LET fc == MulDiv(fc_kg_cm2, KG_CM2_A_MPA, 10^4)
    IN  [base    |-> base_cm * CM_A_MM * 10^3,
         altura  |-> altura_cm * CM_A_MM * 10^3,
         fc      |-> fc,
         fy      |-> MulDiv(fy_kg_cm2, KG_CM2_A_MPA, 10^4),
         beta1   |-> _calcular_beta1(fc),
         area_acero_traccion   |-> 0,
         area_acero_compresion |-> 0,
         mensaje |-> "",
         d_prima |-> RECUBRIMIENTO_PROMEDIO]

-----------------------------------------------------------------------------
(* VigaRectangular.calcular_as and its two branches.  An operation yields  *)
(* [self |-> the object afterwards, exc |-> the exception raised or        *)
(* "none"]; a float division by zero raises ZeroDivisionError and leaves   *)
(* the assignments made before it in place.                                *)

Ok(s) == [self |-> s, exc |-> "none"]

Raise(s, e) == [self |-> s, exc |-> e]

mu_n_mm(mu_ton_m) == MulDiv(mu_ton_m, TON_M_A_N_MM, 10^3)

d_efectivo(s) == s.altura - RECUBRIMIENTO_PROMEDIO

c_limite(s) == MulDiv(375, d_efectivo(s), 10^3)

a_limite(s) == MulDiv(s.beta1, c_limite(s), 10^6)

\* 0.85 * fc * base, in 10^-3 N/mm
ancho_bloque(s) == MulDiv(MulDiv(850, s.fc, 10^3), s.base, 10^3)

cc_max(s) == MulDiv(ancho_bloque(s), a_limite(s), 10^6)

mn_max_simple(s) ==
    MulDiv(cc_max(s), d_efectivo(s) - MulDiv(a_limite(s), 1, 2), 10^3)

mu_max_simple(s) == MulDiv(PHI_FLEXION, mn_max_simple(s), 10^3)

\* min_as of _calcular_simple: (0.25 * sqrt(fc) / fy) * base * d
min_as(s, d) ==
    LET raiz == SqrtIn(s.fc * 10^3, 0, 46340)
        rho  == MulDiv(250 * raiz, 10^6, s.fy)
    IN  MulDiv(MulDiv(rho, s.base, 10^6), d, 10^6)

\* as_min of _verificar_cuantias: the larger of (0.25 * sqrt(fc) / fy) * b * d
\* and (1.4 / fy) * b * d.  No method calls _verificar_cuantias.
as_min(s, d) ==
    Max(min_as(s, d),
        MulDiv(MulDiv(MulDiv(1400 * 10^3, 10^6, s.fy), s.base, 10^6), d, 10^6))

\* One pass of the for loop of _calcular_simple from block depth a: the
\* object after the pass, the new block depth and the exception raised.
\* den1 = phi * fy * (d - a/2) and den2 = 0.85 * fc * base are its divisors.
paso_as(s, as, a, den2) ==
    IF den2 = 0
    THEN [self |-> [s EXCEPT !.area_acero_traccion = as], a_nuevo |-> a,
          exc |-> "ZeroDivisionError"]
    ELSE [self |-> [s EXCEPT !.area_acero_traccion = as], exc |-> "none",
          a_nuevo |-> MulDiv(MulDiv(as, s.fy, 10^6), 10^6, den2)]

paso_den(s, mu, a, den1, den2) ==
    IF den1 = 0 THEN [self |-> s, a_nuevo |-> a, exc |-> "ZeroDivisionError"]
    ELSE paso_as(s, MulDiv(mu, 10^6, den1), a, den2)

paso_simple(s, mu, d, phi, a) ==
    paso_den(s, mu, a,
             MulDiv(MulDiv(phi, s.fy, 10^3), d - MulDiv(a, 1, 2), 10^3),
             ancho_bloque(s))

\* The for loop of _calcular_simple with n passes left; p is the pass made.
RECURSIVE IterarSimple(_, _, _, _, _, _)
seguir_simple(p, mu, d, phi, a, n) ==
    IF p.exc # "none" THEN Raise(p.self, p.exc)
    ELSE IF Abs(p.a_nuevo - a) < 100 THEN Ok(p.self)
    ELSE IterarSimple(p.self, mu, d, phi, p.a_nuevo, n - 1)

IterarSimple(s, mu, d, phi, a, n) ==
    IF n = 0 THEN Ok(s)
    ELSE seguir_simple(paso_simple(s, mu, d, phi, a), mu, d, phi, a, n)

\* the minimum of line 103, applied when the loop raised nothing
con_minimo(it, min) ==
    IF it.exc # "none" THEN it
    ELSE Ok([it.self EXCEPT !.area_acero_traccion = Max(it.self.area_acero_traccion, min)])

_calcular_simple(s, mu, d, phi) ==
    con_minimo(IterarSimple([s EXCEPT !.area_acero_compresion = 0], mu, d, phi,
                            MulDiv(d, 200, 10^3), 20),
               min_as(s, d))

\* es_prima = 0.003 * (c_limite - d_prima) / c_limite, in 10^-9
es_prima(s, c_lim) == MulDiv(3 * 10^6, c_lim - s.d_prima, c_lim)

\* fs_prima = min(es_prima * Es, fy)
fs_prima(s, c_lim) ==
    Min(MulDiv(es_prima(s, c_lim), MODULO_ELASTICIDAD_ACERO, 10^6), s.fy)

\* as_max_simple = (0.85 * fc * base * (beta1 * c_limite)) / fy
as_max_simple(s, c_lim) ==
    MulDiv(MulDiv(ancho_bloque(s), MulDiv(s.beta1, c_lim, 10^6), 10^6), 10^6, s.fy)

\* lines 128-136: the two assignments, area_c the compression area of line 128
doble_asignar(s, area_c, fs, c_lim) ==
    IF s.fy = 0
    THEN Raise([s EXCEPT !.area_acero_compresion = area_c], "ZeroDivisionError")
    ELSE Ok([s EXCEPT !.area_acero_compresion = area_c,
                      !.area_acero_traccion =
                          as_max_simple(s, c_lim)
                          + MulDiv(area_c, MulDiv(fs, 10^6, s.fy), 10^6)])

\* line 128: den = fs_prima * (d - d_prima) is the divisor of mn_extra
doble_dividir(s, mn_extra, fs, den, c_lim) ==
    IF den = 0 THEN Raise(s, "ZeroDivisionError")
    ELSE doble_asignar(s, MulDiv(mn_extra, 10^6, den), fs, c_lim)

doble_fs(s, mn_extra, d, fs, c_lim) ==
    doble_dividir(s, mn_extra, fs, MulDiv(fs, d - s.d_prima, 10^3), c_lim)

_calcular_doble(s, mu, d, phi, mn_max, c_lim) ==
    IF c_lim = 0 THEN Raise(s, "ZeroDivisionError")
    ELSE doble_fs(s, MulDiv(mu, 10^3, phi) - mn_max, d, fs_prima(s, c_lim), c_lim)

\* the message of the branch taken, assigned when the branch raised nothing
con_mensaje(r, msg) ==
    IF r.exc # "none" THEN r ELSE Ok([r.self EXCEPT !.mensaje = msg])

decidir(s, mu, d, phi, mn_max, mu_max) ==
    IF mu <= mu_max
    THEN con_mensaje(_calcular_simple(s, mu, d, phi), "Diseño OK (Simplemente Reforzado)")
    ELSE con_mensaje(_calcular_doble(s, mu, d, phi, mn_max, c_limite(s)),
                     "Diseño OK (Doblemente Reforzado)")

calcular_as(s, mu_ton_m) ==
    decidir(s, mu_n_mm(mu_ton_m), d_efectivo(s), PHI_FLEXION,
            mn_max_simple(s), mu_max_simple(s))

-----------------------------------------------------------------------------
(* VigaRectangular.distribuir_acero.  It returns a respuesta, or raises    *)
(* ValueError; it assigns nothing to the object.                           *)

\* The "resultado" dictionary.  The early return for target <= 0 has no
\* "max_por_capa" key: tiene_max tells whether the key is there.  detalle is
\* the text of the f-string and the numbers formatted into it.
Resultado(varilla, cantidad, capas, detalle, area_real, tiene_max, max) ==
    [varilla |-> varilla, cantidad |-> cantidad, capas |-> capas,
     detalle |-> detalle, area_real |-> area_real,
     tiene_max |-> tiene_max, max_por_capa |-> max]

Respuesta(exito, mensaje, resultado) ==
    [exito |-> exito, mensaje |-> mensaje, resultado |-> resultado]

SinRespuesta == Respuesta(FALSE, "", Resultado("", 0, 0, [texto |-> "", n |-> <<>>], 0, FALSE, 0))

Devuelve(resp) == [kind |-> "return", exc |-> "none", exc_args |-> <<>>, respuesta |-> resp]

Lanza(e, args) == [kind |-> "raise", exc |-> e, exc_args |-> args, respuesta |-> SinRespuesta]

\* target: the area passed, or the stored tension area when it is None
target(s, has_area, area) == IF has_area THEN area ELSE s.area_acero_traccion

\* the test of the early return (and the variant with < for <=)
sin_refuerzo_mut(t) == t < 0
sin_refuerzo(t) == t <= 0

\* math.ceil(target / area_b) (and the variant with int for math.ceil)
num_total_mut(t, area_b) == IntTrunc(t, area_b)
num_total(t, area_b) == Ceil(t, area_b)

b_disponible(s) == s.base - (2 * RECUBRIMIENTO_VIGA) - (2 * DIAMETRO_ESTRIBO_DEF)

separacion_norma(db) == Max(SEPARACION_MINIMA_CONCRETO, db)

ancho_ocupado_por_varilla(db) == db + separacion_norma(db)

\* int((b_disponible + separacion_norma) / ancho_ocupado_por_varilla)
\* (and the variant with math.floor for int)
max_por_capa_mut(s, db) ==
    (b_disponible(s) + separacion_norma(db)) \div ancho_ocupado_por_varilla(db)
max_por_capa(s, db) ==
    IntTrunc(b_disponible(s) + separacion_norma(db), ancho_ocupado_por_varilla(db))

\* "Validaciones de Diseño": the too-narrow test, the layers and the
\* congestion test, applied to the respuesta built before them (and the
\* variant with capa2 >= max_por_capa for capa2 > max_por_capa).
validaciones_mut(resp, n, mpc) ==
    IF mpc < 2 THEN [resp EXCEPT !.exito = FALSE, !.mensaje = "Viga muy angosta"]
    ELSE IF n <= mpc
    THEN [resp EXCEPT !.resultado.detalle = [texto |-> "1 capa de", n |-> <<n>>]]
    ELSE LET capa1 == mpc
             capa2 == n - mpc
             r2 == [resp EXCEPT !.resultado.capas = 2,
                                !.resultado.detalle = [texto |-> "2 capas:", n |-> <<capa1, capa2>>]]
         IN  IF capa2 >= mpc
             THEN [r2 EXCEPT !.exito = FALSE, !.mensaje = "Congestión: Se requieren >2 capas"]
             ELSE r2
validaciones(resp, n, mpc) ==
    IF mpc < 2 THEN [resp EXCEPT !.exito = FALSE, !.mensaje = "Viga muy angosta"]
    ELSE IF n <= mpc
    THEN [resp EXCEPT !.resultado.detalle = [texto |-> "1 capa de", n |-> <<n>>]]
    ELSE LET capa1 == mpc
             capa2 == n - mpc
             r2 == [resp EXCEPT !.resultado.capas = 2,
                                !.resultado.detalle = [texto |-> "2 capas:", n |-> <<capa1, capa2>>]]
         IN  IF capa2 > mpc
             THEN [r2 EXCEPT !.exito = FALSE, !.mensaje = "Congestión: Se requieren >2 capas"]
             ELSE r2

distribuir_acero(s, nombre_varilla, has_area, area) ==
    LET t == target(s, has_area, area)
    IN  IF sin_refuerzo(t)
        THEN Devuelve(Respuesta(TRUE, "No requiere refuerzo",
                 Resultado(nombre_varilla, 0, 0, [texto |-> "Ninguno", n |-> <<>>], 0, FALSE, 0)))
        ELSE IF nombre_varilla \notin DOMAIN VARILLAS_INFO
        THEN Lanza("ValueError", <<"Varilla", nombre_varilla, "no existe">>)
        ELSE LET db     == VARILLAS_INFO[nombre_varilla].diam
                 area_b == VARILLAS_INFO[nombre_varilla].area
                 n      == num_total(t, area_b)
                 mpc    == max_por_capa(s, db)
                 resp   == Respuesta(TRUE, "OK",
                              Resultado(nombre_varilla, n, 1, [texto |-> "", n |-> <<>>],
                                        n * area_b, TRUE, mpc))
             IN  Devuelve(validaciones(resp, n, mpc))

-----------------------------------------------------------------------------
(* The inputs the operations are driven with.                              *)

MaxMuIdx == 5
MaxAreaIdx == 8

\* (base_cm, altura_cm, fc_kg_cm2, fy_kg_cm2): the section of the __main__
\* block, a higher concrete strength, narrow and shallow sections, and a
\* zero width, which the constructor accepts.
Vigas ==
    {<<30, 60, 210, 4200>>, <<30, 60, 350, 4200>>, <<5, 60, 210, 4200>>,
     <<0, 60, 210, 4200>>, <<30, 20, 210, 4200>>, <<30, 22, 210, 4200>>}

\* moments in 10^-3 ton.m: 0, 1 and every 8 ton.m up to 8 * MaxMuIdx
MuTonM == {0, 10^3} \cup {k * 8 * 10^3 : k \in 1..MaxMuIdx}

\* the catalogue keys and one key that is not in the catalogue
Varillas == DOMAIN VARILLAS_INFO \cup {"7/8"}

\* areas in 10^-3 mm2: a negative one, zero, and every 177.5 mm2 up to
\* 177.5 * MaxAreaIdx (355 = 5 * 71 and 1420 = 5 * 284 are whole bars)
Areas == {-10^5} \cup {k * 177500 : k \in 0..MaxAreaIdx}

-----------------------------------------------------------------------------
(* The state machine: one beam object, constructed once and then driven    *)
(* by calls of its methods.  call records the last call and its arguments, *)
(* ret what it returned or raised.                                         *)

NoCall == [op |-> "none", mu |-> 0, key |-> "", has_area |-> FALSE, area |-> 0]

NoRet == [kind |-> "none", exc |-> "none", exc_args |-> <<>>, respuesta |-> SinRespuesta]

Init ==
    /\ pc = "new"
    /\ self = __init__(0, 0, 0, 0)
    /\ call = NoCall
    /\ ret = NoRet

Construir(b, h, fc, fy) ==
    /\ pc = "new"
    /\ pc' = "ready"
    /\ self' = __init__(b, h, fc, fy)
    /\ call' = [NoCall EXCEPT !.op = "__init__"]
    /\ ret' = [NoRet EXCEPT !.kind = "return"]

Resultado_de(r) ==
    IF r.exc = "none" THEN [NoRet EXCEPT !.kind = "return"] ELSE Lanza(r.exc, <<>>)

Efecto(r) ==
    /\ self' = r.self
    /\ ret' = Resultado_de(r)

CalcularAs(mu) ==
    /\ pc = "ready"
    /\ Efecto(calcular_as(self, mu))
    /\ call' = [NoCall EXCEPT !.op = "calcular_as", !.mu = mu]
    /\ pc' = pc

\* distribuir_acero as an action (and the variant that stores the area
\* provided as the tension area of the object).
DistribuirAcero_mut(key, has_area, area) ==
    /\ pc = "ready"
    /\ ret' = distribuir_acero(self, key, has_area, area)
    /\ self' = IF ret'.kind = "return"
               THEN [self EXCEPT !.area_acero_traccion = ret'.respuesta.resultado.area_real]
               ELSE self
    /\ call' = [op |-> "distribuir_acero", mu |-> 0, key |-> key,
                has_area |-> has_area, area |-> area]
    /\ pc' = pc
DistribuirAcero(key, has_area, area) ==
    /\ pc = "ready"
    /\ ret' = distribuir_acero(self, key, has_area, area)
    /\ self' = self
    /\ call' = [op |-> "distribuir_acero", mu |-> 0, key |-> key,
                has_area |-> has_area, area |-> area]
    /\ pc' = pc

Next ==
    \/ \E v \in Vigas : Construir(v[1], v[2], v[3], v[4])
    \/ \E mu \in MuTonM : CalcularAs(mu)
    \/ \E key \in Varillas, area \in Areas : DistribuirAcero(key, TRUE, area)
    \/ \E key \in Varillas : DistribuirAcero(key, FALSE, 0)

Spec == Init /\ [][Next]_vars

-----------------------------------------------------------------------------
(* The construction of a beam taken at the strength the constructor has    *)
(* converted to MPa (lines 36-39): the constructor goes on to assign beta1 *)
(* from it and to clear the results, and the object is then driven by its  *)
(* methods.  The section is the one of the __main__ block; fc runs over    *)
(* every half MPa from 20 MPa to MaxFcIdx / 2 MPa.                         *)

MaxFcIdx == 120

FcMPa == {k * 500 : k \in 40..MaxFcIdx}

\* the object before line 41, beta1 not assigned yet
Convertida(fc) == [__init__(30, 60, 210, 4200) EXCEPT !.fc = fc, !.beta1 = 0]

\* a moment of each branch of calcular_as
MuBeta1 == {10^3, 8 * 10^3 * MaxMuIdx}

InitBeta1 ==
    /\ pc = "init"
    /\ self \in {Convertida(fc) : fc \in FcMPa}
    /\ call = [NoCall EXCEPT !.op = "__init__"]
    /\ ret = NoRet

AsignarBeta1 ==
    /\ pc = "init"
    /\ pc' = "ready"
    /\ self' = [self EXCEPT !.beta1 = _calcular_beta1(self.fc),
                            !.area_acero_traccion = 0,
                            !.area_acero_compresion = 0,
                            !.mensaje = ""]
    /\ call' = call
    /\ ret' = [NoRet EXCEPT !.kind = "return"]

NextBeta1 ==
    \/ AsignarBeta1
    \/ \E mu \in MuBeta1 : CalcularAs(mu)
    \/ \E key \in DOMAIN VARILLAS_INFO : DistribuirAcero(key, FALSE, 0)

SpecBeta1 == InitBeta1 /\ [][NextBeta1]_vars

-----------------------------------------------------------------------------
(* What the properties below read off the last call.                       *)

Simple == "Diseño OK (Simplemente Reforzado)"
Doble == "Diseño OK (Doblemente Reforzado)"
Congestion == "Congestión: Se requieren >2 capas"

Llamo(op) == pc = "ready" /\ call.op = op

EnCatalogo == call.key \in DOMAIN VARILLAS_INFO

\* the section the constructor was given is one the data model allows
SeccionValida == self.base > 0 /\ self.altura > 0 /\ self.fc > 0 /\ self.fy > 0

\* the required area of the last distribuir_acero call
Pedida == IF call.has_area THEN call.area ELSE self.area_acero_traccion

Res == ret.respuesta.resultado

AreaB == VARILLAS_INFO[call.key].area

\* the least count n with n * barUnitArea >= requiredArea
CuentaMinima ==
    CHOOSE n \in 0..(Abs(Pedida) \div AreaB + 1) :
        n * AreaB >= Pedida /\ (n - 1) * AreaB < Pedida

Db == VARILLAS_INFO[call.key].diam
Termino == IF SEPARACION_MINIMA_CONCRETO >= Db THEN SEPARACION_MINIMA_CONCRETO ELSE Db
Paso == Db + Termino
Numerador == self.base - 2 * RECUBRIMIENTO_VIGA - 2 * DIAMETRO_ESTRIBO_DEF + Termino
Cotas == (-(Abs(Numerador) \div Paso) - 1)..(Abs(Numerador) \div Paso + 1)

\* floor(Numerador / Paso): the greatest k with k * Paso <= Numerador
Piso == CHOOSE k \in Cotas : k * Paso <= Numerador /\ (k + 1) * Paso > Numerador

\* ceil(Numerador / Paso): the least k with k * Paso >= Numerador
Techo == CHOOSE k \in Cotas : k * Paso >= Numerador /\ (k - 1) * Paso < Numerador

-----------------------------------------------------------------------------
\* C1: calcular_as takes the singly-reinforced branch exactly when the moment
\* in N.mm is <= Mu_max, and the branch shows as mensaje 'Simplemente
\* Reforzado' with compression area 0, or 'Doblemente Reforzado' with
\* compression area > 0.
C1_RamaObservable ==
    Llamo("calcular_as") /\ SeccionValida /\ ret.kind = "return" =>
        /\ self.mensaje \in {Simple, Doble}
        /\ self.mensaje = Simple <=> mu_n_mm(call.mu) <= mu_max_simple(self)
        /\ self.mensaje = Simple => self.area_acero_compresion = 0
        /\ self.mensaje = Doble => self.area_acero_compresion > 0

\* C2: for a catalogue key and a positive area distribuir_acero returns, with
\* exito false exactly when maxPerLayer < 2 or count > 2 * maxPerLayer; on
\* congestion the result has the congestion message, the whole count and
\* the max per layer.
C2_ExitoExacto ==
    Llamo("distribuir_acero") /\ EnCatalogo /\ Pedida > 0 =>
        /\ ret.kind = "return"
        /\ ~ret.respuesta.exito <=> (Piso < 2 \/ CuentaMinima > 2 * Piso)
        /\ Piso >= 2 /\ CuentaMinima > 2 * Piso =>
              /\ ret.respuesta.mensaje = Congestion
              /\ Res.cantidad = CuentaMinima
              /\ Res.tiene_max /\ Res.max_por_capa = Piso

C2_Congestionada ==
    /\ Llamo("distribuir_acero") /\ EnCatalogo /\ Pedida > 0
    /\ ~ret.respuesta.exito /\ ret.respuesta.mensaje = Congestion
    /\ Res.cantidad > 2 * Res.max_por_capa /\ Res.max_por_capa >= 2

\* C3: every result returned for a positive area reports the least count
\* whose area covers the area required, and area_real = count * bar area,
\* which is >= the area required, failures included.
C3_CuentaYArea ==
    Llamo("distribuir_acero") /\ ret.kind = "return" /\ Pedida > 0 =>
        /\ Res.cantidad = CuentaMinima
        /\ Res.area_real = Res.cantidad * AreaB
        /\ Res.area_real >= Pedida

C3_FallaConArea ==
    /\ Llamo("distribuir_acero") /\ ret.kind = "return" /\ Pedida > 0
    /\ ~ret.respuesta.exito
    /\ Res.cantidad >= 2 /\ Res.area_real > Pedida

\* C4 as claimed: max_por_capa = floor((b_avail + spacingTerm) / pitch) for
\* every width, also when b_avail + spacingTerm is negative.
C4_Piso ==
    Llamo("distribuir_acero") /\ ret.kind = "return" /\ Res.tiene_max /\ self.base > 0 =>
        Res.max_por_capa = Piso

\* C4 amended: max_por_capa is the quotient truncated toward zero: the floor
\* when b_avail + spacingTerm >= 0 and the ceiling when it is negative.
C4_Truncado ==
    Llamo("distribuir_acero") /\ ret.kind = "return" /\ Res.tiene_max =>
        Res.max_por_capa = IF Numerador >= 0 THEN Piso ELSE Techo

C4_NumeradorNegativo ==
    /\ Llamo("distribuir_acero") /\ ret.kind = "return" /\ Res.tiene_max
    /\ self.base > 0 /\ Numerador < 0 /\ Numerador % Paso # 0
    /\ Res.max_por_capa = 0

\* C5: an unknown key always gives a lookup failure carrying the key and the
\* valid keys, for any area, zero included; never a successful layout.
C5_ClaveDesconocida ==
    Llamo("distribuir_acero") /\ SeccionValida /\ ~EnCatalogo /\ Pedida >= 0 =>
        /\ ret.kind = "raise" /\ ret.exc = "ValueError"
        /\ \E i \in DOMAIN ret.exc_args : ret.exc_args[i] = call.key
        /\ \A k \in DOMAIN VARILLAS_INFO :
              \E i \in DOMAIN ret.exc_args : ret.exc_args[i] = k

\* C6: a strictly negative required area is rejected at entry; it is never
\* returned as a successful empty layout.
C6_AreaNegativa ==
    Llamo("distribuir_acero") /\ SeccionValida /\ EnCatalogo
      /\ call.has_area /\ call.area < 0 =>
        ret.kind = "raise"

\* C7: no section with a non-positive width, depth, fc or fy is constructed
\* and later reaches calcular_as or distribuir_acero.
C7_CamposPositivos ==
    Llamo("calcular_as") \/ Llamo("distribuir_acero") =>
        self.base > 0 /\ self.altura > 0 /\ self.fc > 0 /\ self.fy > 0

\* C8: on the singly-reinforced path the tension area returned is never below
\* As_min = max(0.25 * sqrt(fc) / fy, 1.4 / fy) * b * d.
C8_AceroMinimo ==
    Llamo("calcular_as") /\ SeccionValida /\ ret.kind = "return"
      /\ self.mensaje = Simple =>
        self.area_acero_traccion >= as_min(self, d_efectivo(self))

\* C9: a required area of exactly zero with a catalogue key gives exito true,
\* count 0, layers 0 and area 0; the same when no area is passed and the
\* stored tension area is 0.
C9_AreaCero ==
    Llamo("distribuir_acero") /\ EnCatalogo /\ Pedida = 0 =>
        /\ ret.kind = "return" /\ ret.respuesta.exito
        /\ Res.cantidad = 0 /\ Res.capas = 0 /\ Res.area_real = 0

C9_SinAreaGuardada ==
    /\ Llamo("distribuir_acero") /\ EnCatalogo
    /\ ~call.has_area /\ self.area_acero_traccion = 0
    /\ ret.kind = "return" /\ ret.respuesta.exito /\ Res.capas = 0

\* C10: distribuir_acero never changes the beam: width, depth, fc, fy, beta1,
\* tension area, compression area and message are after the call what they
\* were before it, whatever it returns or raises.
C10_NoMuta ==
    [][call'.op = "distribuir_acero" => self' = self]_vars

C10_LanzaTrasDisenar ==
    /\ Llamo("distribuir_acero") /\ ret.kind = "raise"
    /\ self.mensaje = Doble /\ self.area_acero_compresion > 0

\* C11: beta1 is set at construction from fc in MPa and stays as set through
\* every later call: 0.85 when fc <= 28, 0.65 when fc >= 55, and
\* 0.85 - 0.05 * (fc - 28) / 7 (to the nearest 10^-6) strictly in between; so
\* beta1(28) = 0.85, beta1(55) = 0.65 and beta1(35) = 0.80.
C11_Beta1PorTramos ==
    pc = "ready" =>
        /\ self.fc <= 28000 => self.beta1 = 850000
        /\ self.fc >= 55000 => self.beta1 = 650000
        /\ self.fc > 28000 /\ self.fc < 55000 =>
              2 * Abs(7 * (850000 - self.beta1) - 50 * (self.fc - 28000)) <= 7
        /\ self.fc = 35000 => self.beta1 = 800000

C11_TramoLineal ==
    /\ Llamo("calcular_as") /\ ret.kind = "return"
    /\ self.fc = 35000 /\ self.beta1 = 800000

\* what calcular_as stores: tension area, compression area and message
Campos(s) == <<s.area_acero_traccion, s.area_acero_compresion, s.mensaje>>

\* a freshly constructed beam with the parameters of s
Fresca(s) ==
    [s EXCEPT !.area_acero_traccion = 0, !.area_acero_compresion = 0, !.mensaje = ""]

\* C12: after any sequence of calcular_as calls on one beam, interleaved with
\* any distribuir_acero calls, the stored tension area, compression area and
\* message are those a freshly constructed beam with the same parameters
\* holds after the last calcular_as call alone: every calcular_as call leaves
\* what a fresh beam would hold after it, and no distribuir_acero call
\* changes it.
C12_SoloUltimaLlamada ==
    [][SeccionValida =>
        /\ call'.op = "calcular_as" =>
              Campos(self') = Campos(calcular_as(Fresca(self), call'.mu).self)
        /\ call'.op = "distribuir_acero" => Campos(self') = Campos(self)]_vars

====
